---- MODULE Spec2Model ----
(***************************************************************************)
(* Model of itassets/itassets.py (class DependencyMapper): validation of   *)
(* an asset inventory, propagation of dependent labels, selection of the   *)
(* assets of one map and the placeholder nodes of a rendered map.          *)
(*                                                                         *)
(* Python values are modelled as follows.                                  *)
(*   str          a TLA+ string; " " is the only whitespace character      *)
(*   dict         a function whose DOMAIN is the set of keys present       *)
(*   list         a sequence                                               *)
(*   set          a set                                                    *)
(*   asset object its position in the list `assets` (identity) and the     *)
(*                record at that position (equality)                       *)
(* Input domain: every asset has an 'id' and a 'name', and every           *)
(* depends_on entry holds at least one non-blank token.                    *)
(***************************************************************************)
EXTENDS Integers, Sequences, FiniteSets, TLC

(***************************************************************************)
(* Bounds of the model.                                                    *)
(***************************************************************************)
MaxAssets == 3
MaxRuns == 2
\* the longest list of asset files when the options vary as well
MaxOptAssets == 2

(***************************************************************************)
(* Strings.                                                                *)
(***************************************************************************)
CharAt(s, i) == SubSeq(s, i, i)

startswith(s, p) == Len(s) >= Len(p) /\ SubSeq(s, 1, Len(p)) = p

\* Python's  sub in s  on strings
StrIn(sub, s) ==
    \E i \in 1..(Len(s) - Len(sub) + 1) : SubSeq(s, i, i + Len(sub) - 1) = sub

RECURSIVE lstrip(_)
lstrip(s) == IF Len(s) > 0 /\ Head(s) = " " THEN lstrip(Tail(s)) ELSE s

RECURSIVE TokenLen(_)
TokenLen(s) == IF Len(s) = 0 \/ Head(s) = " " THEN 0 ELSE 1 + TokenLen(Tail(s))

\* s.split(): the whitespace separated tokens of s
RECURSIVE split(_)
split(s) ==
    LET t == lstrip(s)
        n == TokenLen(t)
    IN  IF Len(t) = 0 THEN <<>>
        ELSE <<SubSeq(t, 1, n)>> \o split(SubSeq(t, n + 1, Len(t)))

\* s.split(sep)[0] for a one character separator
RECURSIVE SplitFirst(_, _)
SplitFirst(s, sep) ==
    IF Len(s) = 0 \/ Head(s) = sep THEN ""
    ELSE Head(s) \o SplitFirst(Tail(s), sep)

\* s.replace(old, new) for a one character old
RECURSIVE replace(_, _, _)
replace(s, old, new) ==
    IF Len(s) = 0 THEN ""
    ELSE (IF Head(s) = old THEN new ELSE Head(s)) \o replace(Tail(s), old, new)

(***************************************************************************)
(* Regular expressions (module re).  The dialect covers what the type      *)
(* registry and write_maps use: literal characters, '.', a '*' after a     *)
(* character or '.', '^' at the start and '$' at the end of an             *)
(* alternative, '|' between alternatives, and one pair of parentheses      *)
(* around the whole pattern.                                               *)
(***************************************************************************)
StripGroup(p) ==
    IF Len(p) >= 2 /\ Head(p) = "(" /\ CharAt(p, Len(p)) = ")"
    THEN SubSeq(p, 2, Len(p) - 1)
    ELSE p

RECURSIVE Alternatives(_)
Alternatives(p) ==
    LET a == SplitFirst(p, "|")
    IN  IF Len(a) = Len(p) THEN <<p>>
        ELSE <<a>> \o Alternatives(SubSeq(p, Len(a) + 2, Len(p)))

CharMatches(pc, c) == pc = "." \/ pc = c

\* does the pattern re match a prefix of text (the whole of it before '$')
RECURSIVE MatchHere(_, _)
MatchHere(re, text) ==
    IF Len(re) = 0 THEN TRUE
    ELSE IF Len(re) >= 2 /\ CharAt(re, 2) = "*"
    THEN \E k \in 0..Len(text) :
            /\ \A j \in 1..k : CharMatches(Head(re), CharAt(text, j))
            /\ MatchHere(SubSeq(re, 3, Len(re)), SubSeq(text, k + 1, Len(text)))
    ELSE IF re = "$" THEN Len(text) = 0
    ELSE /\ Len(text) > 0
         /\ CharMatches(Head(re), Head(text))
         /\ MatchHere(Tail(re), Tail(text))

SearchAlt(alt, text) ==
    IF Len(alt) > 0 /\ Head(alt) = "^"
    THEN MatchHere(Tail(alt), text)
    ELSE \E i \in 1..(Len(text) + 1) : MatchHere(alt, SubSeq(text, i, Len(text)))

\* re.search(pattern, text) is not None
re_search(pattern, text) ==
    LET alts == Alternatives(StripGroup(pattern))
    IN  \E a \in 1..Len(alts) : SearchAlt(alts[a], text)

(***************************************************************************)
(* The type registry, asset_defs/it_assets/itasset_defs.py.  Of an         *)
(* AssetType the model keeps tags, fields, depends and prefix.             *)
(***************************************************************************)
AT(tags, fields, depends, prefix) ==
    [tags |-> tags, fields |-> fields, depends |-> depends, prefix |-> prefix]

AppDepends ==
    "(cloud/service|container/.*|vm/virtualbox|physical/server/service$|website/static)"

DbDepends ==
    "(cloud/service|container/.*|vm/virtualbox|physical/server/service$)"

ASSET_TYPE ==
    "application/external" :> AT({"top"}, <<"location", "owner">>, <<AppDepends>>, "app")
 @@ "application/internal" :> AT({"top"}, <<"location", "owner">>, <<AppDepends>>, "app")
 @@ "backup" :> AT({}, <<"location">>, <<>>, "bak")
 @@ "cloud/service" :> AT({}, <<"location">>, <<"resource/deployment">>, "csvc")
 @@ "container/docker" :>
        AT({}, <<>>,
           <<"resource/deployment", "(physical/server|cloud/service)", "storage/.*">>,
           "con")
 @@ "database" :> AT({}, <<>>, <<DbDepends, "backup">>, "db")
 @@ "drive" :> AT({}, <<"location", "size">>, <<"physical/server">>, "drv")
 @@ "physical/server" :> AT({"bottom"}, <<>>, <<>>, "srv")
 @@ "physical/server/service" :>
        AT({}, <<>>, <<"physical/server", "resource/deployment", "storage/.*">>, "psvc")
 @@ "physical/server/service/infrastructure" :>
        AT({}, <<>>, <<"physical/server", "resource/deployment", "storage/.*">>, "psvc")
 @@ "resource/deployment" :> AT({"bottom"}, <<"location">>, <<>>, "dply")
 @@ "storage/local" :> AT({}, <<"location">>, <<"backup", "drive">>, "sto")
 @@ "vm/virtualbox" :> AT({}, <<>>, <<"physical/server", "storage/.*">>, "vbx")
 @@ "website/static" :>
        AT({}, <<"location">>,
           <<"resource/deployment", "storage/.*", "physical/server/service">>, "wss")

(***************************************************************************)
(* Dictionaries and lists.                                                 *)
(***************************************************************************)
EmptyDict == <<>>

\* d.get(key, default)
Get(d, key, default) == IF key \in DOMAIN d THEN d[key] ELSE default

\* d[key] = value
Put(d, key, value) ==
    [k \in DOMAIN d \cup {key} |-> IF k = key THEN value ELSE d[k]]

\* x in list
InList(x, list) == \E k \in 1..Len(list) : list[k] = x

\* asset.get(field) is falsy: the key is absent or holds '' or []
Falsy(asset, field) == field \notin DOMAIN asset \/ Len(asset[field]) = 0

\* {i['id']: i for i in list}: the position in `assets` of the last asset of
\* the list (a sequence of positions) that has the id
IdLookup(assets, list) ==
    [id \in {assets[list[k]].id : k \in 1..Len(list)} |->
        list[CHOOSE k \in 1..Len(list) :
                /\ assets[list[k]].id = id
                /\ \A m \in (k + 1)..Len(list) : assets[list[m]].id # id]]

Positions(assets) == [k \in 1..Len(assets) |-> k]

(***************************************************************************)
(* asset_dep_ids: the first token of every depends_on entry; with          *)
(* insufficient=True the entries that contain 'INSUF' are left out.        *)
(***************************************************************************)
RECURSIVE DepIdsOf(_, _)
DepIdsOf(entries, insufficient) ==
    IF entries = <<>> THEN <<>>
    ELSE LET i == Head(entries)
         IN  (IF ~insufficient \/ ~StrIn("INSUF", i) THEN <<split(i)[1]>> ELSE <<>>)
             \o DepIdsOf(Tail(entries), insufficient)

\* asset_dep_ids that leaves the INSUF entries out for every caller
asset_dep_ids_sufficient_only(asset, insufficient) ==
    DepIdsOf(Get(asset, "depends_on", <<>>), TRUE)

asset_dep_ids(asset, insufficient) ==
    DepIdsOf(Get(asset, "depends_on", <<>>), insufficient)

(***************************************************************************)
(* The validators.  Each gets (asset, lookup, dependents), where lookup    *)
(* maps an id to the position of its asset, and gives the list of the      *)
(* issues it yields, or the exception it raises in place of a list.        *)
(***************************************************************************)
Yields(issues) == [exc |-> "None", issues |-> issues]
Raises(exc) == [exc |-> exc, issues |-> <<>>]

known_asset_type(assets, asset, lookup, dependents) ==
    IF "type" \notin DOMAIN asset
    THEN Yields(<<<<"ERROR", "Has unknown type None">>>>)
    ELSE IF asset.type \notin DOMAIN ASSET_TYPE
    THEN Yields(<<<<"ERROR", "Has unknown type " \o asset.type>>>>)
    ELSE Yields(<<>>)

\* no_undef_depends without the test for the ^ syntax
RECURSIVE UndefDependsWithExcluded(_, _)
UndefDependsWithExcluded(deps, lookup) ==
    IF deps = <<>> THEN <<>>
    ELSE (IF Head(deps) \notin DOMAIN lookup
          THEN <<<<"WARNING", "Depends on undefined asset ID=" \o Head(deps)>>>>
          ELSE <<>>)
         \o UndefDependsWithExcluded(Tail(deps), lookup)

RECURSIVE UndefDepends(_, _)
UndefDepends(deps, lookup) ==
    IF deps = <<>> THEN <<>>
    ELSE (IF Head(deps) \notin DOMAIN lookup /\ ~startswith(Head(deps), "^")
          THEN <<<<"WARNING", "Depends on undefined asset ID=" \o Head(deps)>>>>
          ELSE <<>>)
         \o UndefDepends(Tail(deps), lookup)

no_undef_depends(assets, asset, lookup, dependents) ==
    Yields(UndefDepends(asset_dep_ids(asset, FALSE), lookup))

known_id_prefix(assets, asset, lookup, dependents) ==
    LET id_prefix == {ASSET_TYPE[t].prefix : t \in DOMAIN ASSET_TYPE}
    IN  IF SplitFirst(asset.id, "_") \notin id_prefix
        THEN Yields(<<<<"WARNING", "Has unknown prefix">>>>)
        ELSE Yields(<<>>)

dependents_if_not_top(assets, asset, lookup, dependents) ==
    IF asset.id \in DOMAIN dependents \/ "type" \notin DOMAIN asset
    THEN Yields(<<>>)
    ELSE IF asset.type \notin DOMAIN ASSET_TYPE
    THEN Raises("KeyError")
    ELSE IF "top" \notin ASSET_TYPE[asset.type].tags
    THEN Yields(<<<<"WARNING", "Non-top-level asset has no dependents">>>>)
    ELSE Yields(<<>>)

dependencies_if_not_bottom(assets, asset, lookup, dependents) ==
    IF ~Falsy(asset, "depends_on")
    THEN Yields(<<>>)
    ELSE IF "type" \notin DOMAIN asset \/ asset.type \notin DOMAIN ASSET_TYPE
    THEN Raises("KeyError")
    ELSE IF "bottom" \notin ASSET_TYPE[asset.type].tags
    THEN Yields(<<<<"WARNING", "Non-bottom-level asset has no dependencies">>>>)
    ELSE Yields(<<>>)

has_open_issues(assets, asset, lookup, dependents) ==
    IF ~Falsy(asset, "open_issues")
    THEN Yields(<<<<"WARNING", "Has open issues">>>>)
    ELSE Yields(<<>>)

tagged_needs_work(assets, asset, lookup, dependents) ==
    IF InList("needs_work", Get(asset, "tags", <<>>))
    THEN Yields(<<<<"WARNING", "Has 'needs_work' tag">>>>)
    ELSE Yields(<<>>)

RECURSIVE MissingFields(_, _, _)
MissingFields(asset, type_, fields) ==
    IF fields = <<>> THEN <<>>
    ELSE (IF Falsy(asset, Head(fields))
          THEN <<<<"WARNING",
                   "'" \o type_ \o "' definition missing '" \o Head(fields) \o "' field">>>>
          ELSE <<>>)
         \o MissingFields(asset, type_, Tail(fields))

check_fields(assets, asset, lookup, dependents) ==
    IF "type" \notin DOMAIN asset \/ asset.type \notin DOMAIN ASSET_TYPE
    THEN Raises("KeyError")
    ELSE Yields(MissingFields(asset, asset.type, ASSET_TYPE[asset.type].fields))

\* the test of check_depends with a match of the whole type
RECURSIVE AnyTypeFullMatches(_, _, _, _)
AnyTypeFullMatches(assets, dep, ids, lookup) ==
    IF ids = <<>> THEN "False"
    ELSE LET i == Head(ids)
         IN  IF i \in DOMAIN lookup /\ "type" \notin DOMAIN assets[lookup[i]]
             THEN "KeyError"
             ELSE IF re_search("^" \o dep \o "$",
                               IF i \in DOMAIN lookup
                               THEN assets[lookup[i]].type ELSE "NO-TYPE")
             THEN "True"
             ELSE AnyTypeFullMatches(assets, dep, Tail(ids), lookup)

\* any(re.search(dep, lookup.get(i, {'type': "NO-TYPE"})['type']) for i in ids):
\* "True", "False", or "KeyError" when an asset without 'type' is met before
\* a match
RECURSIVE AnyTypeMatches(_, _, _, _)
AnyTypeMatches(assets, dep, ids, lookup) ==
    IF ids = <<>> THEN "False"
    ELSE LET i == Head(ids)
         IN  IF i \in DOMAIN lookup /\ "type" \notin DOMAIN assets[lookup[i]]
             THEN "KeyError"
             ELSE IF re_search(dep, IF i \in DOMAIN lookup
                                    THEN assets[lookup[i]].type ELSE "NO-TYPE")
             THEN "True"
             ELSE AnyTypeMatches(assets, dep, Tail(ids), lookup)

\* check_depends without the continue after the NOTE
RECURSIVE CheckDependsNoContinue(_, _, _, _)
CheckDependsNoContinue(assets, asset, depends, lookup) ==
    IF depends = <<>> THEN Yields(<<>>)
    ELSE LET dep == Head(depends)
             rest == CheckDependsNoContinue(assets, asset, Tail(depends), lookup)
             any_ == AnyTypeMatches(assets, dep, asset_dep_ids(asset, TRUE), lookup)
             note == IF InList("^" \o dep, asset_dep_ids(asset, FALSE))
                     THEN <<<<"NOTE", "Specifically excludes '" \o dep \o "' dependency">>>>
                     ELSE <<>>
             Then(issues) ==
                 IF rest.exc # "None" THEN rest ELSE Yields(note \o issues \o rest.issues)
         IN  IF any_ = "KeyError" THEN Raises("KeyError")
             ELSE IF any_ = "False"
             THEN Then(<<<<"WARNING",
                           "'" \o asset.type \o "' should define '" \o dep \o "' dependency">>>>)
             ELSE Then(<<>>)

RECURSIVE CheckDepends(_, _, _, _)
CheckDepends(assets, asset, depends, lookup) ==
    IF depends = <<>> THEN Yields(<<>>)
    ELSE LET dep == Head(depends)
             rest == CheckDepends(assets, asset, Tail(depends), lookup)
             any_ == AnyTypeMatches(assets, dep, asset_dep_ids(asset, TRUE), lookup)
             Then(issues) ==
                 IF rest.exc # "None" THEN rest ELSE Yields(issues \o rest.issues)
         IN  IF InList("^" \o dep, asset_dep_ids(asset, FALSE))
             THEN Then(<<<<"NOTE", "Specifically excludes '" \o dep \o "' dependency">>>>)
             ELSE IF any_ = "KeyError" THEN Raises("KeyError")
             ELSE IF any_ = "False"
             THEN Then(<<<<"WARNING",
                           "'" \o asset.type \o "' should define '" \o dep \o "' dependency">>>>)
             ELSE Then(<<>>)

check_depends(assets, asset, lookup, dependents) ==
    IF "type" \notin DOMAIN asset \/ asset.type \notin DOMAIN ASSET_TYPE
    THEN Raises("KeyError")
    ELSE CheckDepends(assets, asset, ASSET_TYPE[asset.type].depends, lookup)

\* the validators with check_depends registered first
VALIDATORS_check_depends_first ==
    ".*" :> << "check_depends", "known_asset_type", "no_undef_depends",
               "known_id_prefix", "dependents_if_not_top",
               "dependencies_if_not_bottom", "has_open_issues",
               "tagged_needs_work", "check_fields" >>

\* VALIDATORS: the decorated functions in the order of their definition
VALIDATORS ==
    ".*" :> << "known_asset_type", "no_undef_depends", "known_id_prefix",
               "dependents_if_not_top", "dependencies_if_not_bottom",
               "has_open_issues", "tagged_needs_work", "check_fields",
               "check_depends" >>

\* validator(self, asset, seen, dependents)
CallValidator(validator, assets, asset, lookup, dependents) ==
    CASE validator = "known_asset_type" ->
            known_asset_type(assets, asset, lookup, dependents)
      [] validator = "no_undef_depends" ->
            no_undef_depends(assets, asset, lookup, dependents)
      [] validator = "known_id_prefix" ->
            known_id_prefix(assets, asset, lookup, dependents)
      [] validator = "dependents_if_not_top" ->
            dependents_if_not_top(assets, asset, lookup, dependents)
      [] validator = "dependencies_if_not_bottom" ->
            dependencies_if_not_bottom(assets, asset, lookup, dependents)
      [] validator = "has_open_issues" ->
            has_open_issues(assets, asset, lookup, dependents)
      [] validator = "tagged_needs_work" ->
            tagged_needs_work(assets, asset, lookup, dependents)
      [] validator = "check_fields" ->
            check_fields(assets, asset, lookup, dependents)
      [] validator = "check_depends" ->
            check_depends(assets, asset, lookup, dependents)

(***************************************************************************)
(* validate_assets.                                                        *)
(***************************************************************************)
\* the first loop with dependents[dep] = [id_] in place of the append
RECURSIVE SetDependents(_, _, _)
SetDependents(dependents, deps, id_) ==
    IF deps = <<>> THEN dependents
    ELSE SetDependents(Put(dependents, Head(deps), <<id_>>), Tail(deps), id_)

\* dependents[dep].append(id_) for every dep of deps
RECURSIVE AppendDependents(_, _, _)
AppendDependents(dependents, deps, id_) ==
    IF deps = <<>> THEN dependents
    ELSE AppendDependents(
            Put(dependents, Head(deps), Append(Get(dependents, Head(deps), <<>>), id_)),
            Tail(deps), id_)

\* the first loop: duplicate ids and dependents, from asset k on
RECURSIVE ScanAssets(_, _, _)
ScanAssets(assets, k, st) ==
    IF k > Len(assets) THEN st
    ELSE LET asset == assets[k]
             id_ == asset.id
         IN  ScanAssets(assets, k + 1,
                [seen |-> IF id_ \in DOMAIN st.seen THEN st.seen
                          ELSE Put(st.seen, id_, k),
                 duplicate_IDs |-> st.duplicate_IDs \/ id_ \in DOMAIN st.seen,
                 dependents |->
                    AppendDependents(st.dependents, asset_dep_ids(asset, FALSE), id_)])

\* the validators of the table that apply to the asset, in calling order
RECURSIVE MatchingValidators(_, _)
MatchingValidators(compiled, asset) ==
    IF compiled = <<>> THEN <<>>
    ELSE (IF re_search(Head(compiled)[1], Get(asset, "type", "NOT-SPECIFIED"))
          THEN Head(compiled)[2] ELSE <<>>)
         \o MatchingValidators(Tail(compiled), asset)

\* issues.extend(list(validator(...))) for each validator, until one raises
RECURSIVE RunValidators(_, _, _, _, _, _)
RunValidators(validators, assets, k, seen, dependents, st) ==
    IF validators = <<>> THEN st
    ELSE LET r == CallValidator(Head(validators), assets, assets[k], seen, dependents)
             called == Append(st.calls, <<k, Head(validators)>>)
         IN  IF r.exc # "None"
             THEN [exc |-> r.exc, issues |-> st.issues, calls |-> called]
             ELSE RunValidators(Tail(validators), assets, k, seen, dependents,
                     [exc |-> "None", issues |-> st.issues \o r.issues,
                      calls |-> called])

\* the second loop without its finally clause: the issues of the asset whose
\* validator raised are dropped
RECURSIVE ValidateEachNoFinally(_, _, _, _, _, _)
ValidateEachNoFinally(assets, compiled, k, seen, dependents, st) ==
    IF k > Len(assets) THEN st
    ELSE LET r == RunValidators(MatchingValidators(compiled, assets[k]), assets, k,
                     seen, dependents,
                     [exc |-> "None", issues |-> <<<<"UNKNOWN", "FAILURE">>>>,
                      calls |-> st.calls])
             issues == Tail(r.issues)
             failures == IF issues # <<>> THEN Put(st.failures, assets[k].id, issues)
                         ELSE st.failures
         IN  IF r.exc # "None"
             THEN [exc |-> r.exc, failures |-> st.failures, calls |-> r.calls]
             ELSE ValidateEachNoFinally(assets, compiled, k + 1, seen, dependents,
                     [exc |-> "None", failures |-> failures, calls |-> r.calls])

\* the second loop, from asset k on
RECURSIVE ValidateEach(_, _, _, _, _, _)
ValidateEach(assets, compiled, k, seen, dependents, st) ==
    IF k > Len(assets) THEN st
    ELSE LET r == RunValidators(MatchingValidators(compiled, assets[k]), assets, k,
                     seen, dependents,
                     [exc |-> "None", issues |-> <<<<"UNKNOWN", "FAILURE">>>>,
                      calls |-> st.calls])
             issues == IF r.exc = "None" THEN Tail(r.issues) ELSE r.issues
             failures == IF issues # <<>> THEN Put(st.failures, assets[k].id, issues)
                         ELSE st.failures
         IN  IF r.exc # "None"
             THEN [exc |-> r.exc, failures |-> failures, calls |-> r.calls]
             ELSE ValidateEach(assets, compiled, k + 1, seen, dependents,
                     [exc |-> "None", failures |-> failures, calls |-> r.calls])

\* validate_assets that goes on to the validators when ids are duplicated
validate_assets_ignoring_duplicates(assets, compiled) ==
    LET g == ScanAssets(assets, 1,
                [seen |-> EmptyDict, duplicate_IDs |-> FALSE, dependents |-> EmptyDict])
        v == ValidateEach(assets, compiled, 1, g.seen, g.dependents,
                [exc |-> "None", failures |-> EmptyDict, calls |-> <<>>])
    IN  [seen |-> g.seen, dependents |-> g.dependents, failures |-> v.failures,
         calls |-> v.calls, exc |-> v.exc]

\* the locals of validate_assets when it returns or raises
validate_assets(assets, compiled) ==
    LET g == ScanAssets(assets, 1,
                [seen |-> EmptyDict, duplicate_IDs |-> FALSE, dependents |-> EmptyDict])
        v == ValidateEach(assets, compiled, 1, g.seen, g.dependents,
                [exc |-> "None", failures |-> EmptyDict, calls |-> <<>>])
    IN  IF g.duplicate_IDs
        THEN [seen |-> g.seen, dependents |-> g.dependents, failures |-> EmptyDict,
              calls |-> <<>>, exc |-> "Exception"]
        ELSE [seen |-> g.seen, dependents |-> g.dependents, failures |-> v.failures,
              calls |-> v.calls, exc |-> v.exc]

\* an update that adds an item for a pattern the table already holds
RECURSIVE UpdateCompiledAppending(_, _)
UpdateCompiledAppending(compiled, keys) ==
    IF keys = {} THEN compiled
    ELSE LET key == CHOOSE key \in keys : TRUE
         IN  UpdateCompiledAppending(Append(compiled, <<key, VALIDATORS[key]>>),
                                     keys \ {key})

\* VALIDATORS_COMPILED.update({re.compile(k): v for k, v in VALIDATORS.items()});
\* the table is kept as the list of its (pattern, validators) items
RECURSIVE UpdateCompiled(_, _)
UpdateCompiled(compiled, keys) ==
    IF keys = {} THEN compiled
    ELSE LET key == CHOOSE key \in keys : TRUE
             item == <<key, VALIDATORS[key]>>
             next == IF \E n \in 1..Len(compiled) : compiled[n][1] = key
                     THEN [n \in 1..Len(compiled) |->
                              IF compiled[n][1] = key THEN item ELSE compiled[n]]
                     ELSE Append(compiled, item)
         IN  UpdateCompiled(next, keys \ {key})

(***************************************************************************)
(* propagate_dependent.                                                    *)
(***************************************************************************)
\* add_types that labels the asset and its direct dependencies only
RECURSIVE LabelEach(_, _, _, _, _)
LabelEach(st, depends, type_, output, lookup) ==
    IF depends = <<>> THEN st
    ELSE LabelEach(
            IF Head(depends) \in DOMAIN lookup
            THEN [st EXCEPT !.assets[lookup[Head(depends)]] =
                     Put(@, output, Get(@, output, {}) \cup {type_})]
            ELSE st,
            Tail(depends), type_, output, lookup)

add_types_direct(st, i, type_, output, lookup) ==
    LabelEach([st EXCEPT !.assets[i] = Put(@, output, Get(@, output, {}) \cup {type_})],
              asset_dep_ids(st.assets[i], FALSE), type_, output, lookup)

\* add_types(asset, type_, lookup, seen) on the asset at position i; st holds
\* the assets, the set `seen`, which the nested calls share, and the list
\* `visited` of the dependency ids that passed the test on `seen`
RECURSIVE add_types(_, _, _, _, _)
RECURSIVE AddTypesDepends(_, _, _, _, _)
add_types(st, i, type_, output, lookup) ==
    LET asset == st.assets[i]
        labelled == Put(asset, output, Get(asset, output, {}) \cup {type_})
    IN  AddTypesDepends([st EXCEPT !.assets[i] = labelled],
                        asset_dep_ids(asset, FALSE), type_, output, lookup)

AddTypesDepends(st, depends, type_, output, lookup) ==
    IF depends = <<>> THEN st
    ELSE LET depend == Head(depends)
             marked == [st EXCEPT !.seen = @ \cup {depend},
                                  !.visited = Append(@, depend)]
         IN  IF depend \in st.seen
             THEN AddTypesDepends(st, Tail(depends), type_, output, lookup)
             ELSE AddTypesDepends(
                     IF depend \in DOMAIN lookup
                     THEN add_types(marked, lookup[depend], type_, output, lookup)
                     ELSE marked,
                     Tail(depends), type_, output, lookup)

\* the loop over the roots with one set `seen` for all the roots
RECURSIVE PropagateFromSharedSeen(_, _, _, _, _)
PropagateFromSharedSeen(st, k, output, field, lookup) ==
    IF k > Len(st.assets) THEN [st EXCEPT !.exc = "None"]
    ELSE IF field \notin DOMAIN st.assets[k] THEN [st EXCEPT !.exc = "KeyError"]
    ELSE LET before == UNION {{st.visited[r][n] : n \in 1..Len(st.visited[r])} :
                              r \in 1..Len(st.visited)}
             r == add_types([assets |-> st.assets, seen |-> before,
                             visited |-> <<>>],
                            k, st.assets[k][field], output, lookup)
         IN  PropagateFromSharedSeen([assets |-> r.assets, exc |-> "None",
                                      visited |-> Append(st.visited, r.visited)],
                                     k + 1, output, field, lookup)

\* the loop over the roots, from asset k on; asset[field] raises KeyError;
\* st holds the assets and, root by root, the ids that add_types visited
RECURSIVE PropagateFrom(_, _, _, _, _)
PropagateFrom(st, k, output, field, lookup) ==
    IF k > Len(st.assets) THEN [st EXCEPT !.exc = "None"]
    ELSE IF field \notin DOMAIN st.assets[k] THEN [st EXCEPT !.exc = "KeyError"]
    ELSE LET r == add_types([assets |-> st.assets, seen |-> {}, visited |-> <<>>],
                            k, st.assets[k][field], output, lookup)
         IN  PropagateFrom([assets |-> r.assets, exc |-> "None",
                            visited |-> Append(st.visited, r.visited)],
                           k + 1, output, field, lookup)

\* propagate_dependent that writes every label to the default output
propagate_dependent_default_output(assets, output, field) ==
    PropagateFrom([assets |-> assets, exc |-> "None", visited |-> <<>>], 1,
                  "_dependent_types", field, IdLookup(assets, Positions(assets)))

propagate_dependent(assets, output, field) ==
    PropagateFrom([assets |-> assets, exc |-> "None", visited |-> <<>>], 1,
                  output, field, IdLookup(assets, Positions(assets)))

(***************************************************************************)
(* write_map and assets_to_dot.  A list of assets is a sequence of         *)
(* positions in `assets`, the list that prep_assets returns.               *)
(***************************************************************************)
\* asset in list, which compares the dictionaries
AssetIn(assets, k, list) == \E m \in 1..Len(list) : assets[list[m]] = assets[k]

\* the selection with a search that is not anchored
LeadingToUnanchored(assets, list, leads_to, in_field) ==
    LET Keep(k) == \E j \in Get(assets[k], in_field, {}) : re_search(leads_to, j)
    IN  SelectSeq(list, Keep)

\* use = [i for i in assets if any(re.search(f'^{leads_to}$', j) ...)]
LeadingTo(assets, list, leads_to, in_field) ==
    LET Keep(k) == \E j \in Get(assets[k], in_field, {}) :
                        re_search("^" \o leads_to \o "$", j)
    IN  SelectSeq(list, Keep)

\* for dep in asset_dep_ids(asset): append lookup[dep] when it is not in use
RECURSIVE AppendDeps(_, _, _, _)
AppendDeps(assets, use, deps, lookup) ==
    IF deps = <<>> THEN use
    ELSE AppendDeps(assets,
            IF Head(deps) \in DOMAIN lookup /\ ~AssetIn(assets, lookup[Head(deps)], use)
            THEN Append(use, lookup[Head(deps)]) ELSE use,
            Tail(deps), lookup)

\* for asset in list(use): ..., over the copy `todo` of use
RECURSIVE AddDepsPass(_, _, _, _)
AddDepsPass(assets, use, todo, lookup) ==
    IF todo = <<>> THEN use
    ELSE AddDepsPass(assets,
            AppendDeps(assets, use, asset_dep_ids(assets[Head(todo)], FALSE), lookup),
            Tail(todo), lookup)

\* while old_len != len(use): one pass, then old_len = len(use); -1 is None.
\* st holds `use` and, pass by pass, its length before and after the pass
RECURSIVE AddDepsLoop(_, _, _, _)
AddDepsLoop(assets, st, old_len, lookup) ==
    IF old_len = Len(st.use) THEN st
    ELSE LET next == AddDepsPass(assets, st.use, st.use, lookup)
         IN  AddDepsLoop(assets,
                [use |-> next,
                 passes |-> Append(st.passes, <<Len(st.use), Len(next)>>)],
                Len(next), lookup)

NotLeadingTo(assets, list, leads_to, in_field) ==
    LET first == LeadingTo(assets, list, leads_to, in_field)
        Keep(k) == ~AssetIn(assets, k, first)
    IN  AddDepsLoop(assets, [use |-> SelectSeq(list, Keep), passes |-> <<>>], -1,
                    IdLookup(assets, list))

\* a node of the dot graph: an asset of the list or a placeholder (asset 0)
\* the placeholder record numbered one past the line that is written for it
PlaceholderNumberedPastLine(n) ==
    [name |-> "???", _node_id |-> "n" \o ToString(n + 1), asset |-> 0]

Placeholder(n) == [name |-> "???", _node_id |-> "n" \o ToString(n), asset |-> 0]

\* the themes; of a theme the model keeps its name and its colours
LIGHT_THEME == [name |-> "light", dot_edit_col |-> "#c0c0c0", dot_err_col |-> "pink"]

DARK_THEME ==
    [name |-> "dark", stroke |-> "#808080", text |-> "#808080",
     dot_edit_col |-> "#303030", dot_err_col |-> "#200000"]

\* the line that add_missing_deps appends, under the global options OPT
PlaceholderLine(n, OPT) ==
    "  n" \o ToString(n) \o " [label=\"???\", shape=doubleoctagon, "
    \o "fillcolor=\"" \o OPT.theme.dot_err_col \o "\", style=filled]"

RECURSIVE RealDeps(_)
RealDeps(ids) ==
    IF ids = <<>> THEN <<>>
    ELSE (IF ~startswith(Head(ids), "^") THEN <<Head(ids)>> ELSE <<>>)
         \o RealDeps(Tail(ids))

\* add_missing_deps that looks for the dependency among the assets only
RECURSIVE AddMissingPerReference(_, _, _)
AddMissingPerReference(st, deps, OPT) ==
    IF deps = <<>> THEN st
    ELSE LET dep == Head(deps)
             n == Cardinality(DOMAIN st.other)
         IN  AddMissingPerReference(
                IF dep \notin DOMAIN st.other \/ st.other[dep].asset = 0
                THEN [other |-> Put(st.other, dep, Placeholder(n)),
                      ans |-> Append(st.ans, PlaceholderLine(n, OPT))]
                ELSE st,
                Tail(deps), OPT)

RECURSIVE AddMissing(_, _, _)
AddMissing(st, deps, OPT) ==
    IF deps = <<>> THEN st
    ELSE LET dep == Head(deps)
             n == Cardinality(DOMAIN st.other)
         IN  AddMissing(
                IF dep \notin DOMAIN st.other
                THEN [other |-> Put(st.other, dep, Placeholder(n)),
                      ans |-> Append(st.ans, PlaceholderLine(n, OPT))]
                ELSE st,
                Tail(deps), OPT)

\* add_missing_deps(assets, other, ans) over the list, from its m-th asset on
RECURSIVE add_missing_deps(_, _, _, _, _)
add_missing_deps(assets, list, m, st, OPT) ==
    IF m > Len(list) THEN st
    ELSE add_missing_deps(assets, list, m + 1,
            AddMissing(st, RealDeps(asset_dep_ids(assets[list[m]], FALSE)), OPT),
            OPT)

\* other = {i['id']: i for i in assets} with the _node_id that the
\* enumeration of the list gives each asset
OtherOf(assets, list) ==
    LET lookup == IdLookup(assets, list)
        PosIn(k) == CHOOSE m \in 1..Len(list) :
                        /\ list[m] = k
                        /\ \A q \in (m + 1)..Len(list) : list[q] # k
    IN  [id \in DOMAIN lookup |->
            [name |-> assets[lookup[id]].name,
             _node_id |-> "n" \o ToString(PosIn(lookup[id]) - 1),
             asset |-> lookup[id]]]

RECURSIVE EdgesTo(_, _, _)
EdgesTo(other, deps, node) ==
    IF deps = <<>> THEN <<>>
    ELSE <<<<other[Head(deps)]._node_id, node>>>> \o EdgesTo(other, Tail(deps), node)

\* the loop that writes nodes and edges, from the m-th asset of the list on;
\* ASSET_TYPE[asset["type"]] raises KeyError
RECURSIVE DrawNodes(_, _, _, _, _)
DrawNodes(assets, list, m, other, st) ==
    IF m > Len(list) THEN st
    ELSE LET asset == assets[list[m]]
             node == "n" \o ToString(m - 1)
         IN  IF "type" \notin DOMAIN asset \/ asset.type \notin DOMAIN ASSET_TYPE
             THEN [st EXCEPT !.exc = "KeyError"]
             ELSE DrawNodes(assets, list, m + 1, other,
                    [nodes |-> Append(st.nodes, node),
                     edges |-> st.edges
                        \o EdgesTo(other, RealDeps(asset_dep_ids(asset, FALSE)), node),
                     exc |-> "None"])

\* of the dot text the model keeps the placeholder lines (ans), the node
\* ids of the asset lines (nodes) and the ends of the edges (edges)
assets_to_dot(assets, list, OPT) ==
    LET m == add_missing_deps(assets, list, 1,
                [other |-> OtherOf(assets, list), ans |-> <<>>], OPT)
        d == DrawNodes(assets, list, 1, m.other,
                [nodes |-> <<>>, edges |-> <<>>, exc |-> "None"])
    IN  [other |-> m.other, ans |-> m.ans, nodes |-> d.nodes, edges |-> d.edges,
         exc |-> d.exc]

\* write_map on the list of assets (positions in `assets`) that write_maps
\* passes on, under the global options OPT
write_map(assets, list, leads_to, in_field, negate, OPT) ==
    LET sel == IF negate THEN NotLeadingTo(assets, list, leads_to, in_field)
               ELSE [use |-> LeadingTo(assets, list, leads_to, in_field),
                     passes |-> <<>>]
        dot == assets_to_dot(assets, sel.use, OPT)
    IN  [use |-> sel.use, passes |-> sel.passes, other |-> dot.other,
         ans |-> dot.ans, nodes |-> dot.nodes, edges |-> dot.edges, exc |-> dot.exc]

(***************************************************************************)
(* The asset files.                                                        *)
(***************************************************************************)
Srv1 == [id |-> "srv_1", type |-> "physical/server", name |-> "Server 1"]

Psvc1 ==
    [id |-> "psvc_1", type |-> "physical/server/service", name |-> "Service 1",
     depends_on |-> <<"srv_1", "^resource/deployment commentary", "missing_1">>]

App1 ==
    [id |-> "app_1", type |-> "application/external", name |-> "App 1",
     depends_on |-> <<"psvc_1 runs on", "app_1">>, location |-> "x", owner |-> "y"]

\* a second definition of srv_1, which closes a cycle through app_1
Srv1Cycle ==
    [id |-> "srv_1", type |-> "physical/server", name |-> "Server 1 again",
     depends_on |-> <<"app_1 INSUF odd">>]

Db1 ==
    [id |-> "db_1", type |-> "database", name |-> "Database 1",
     depends_on |-> <<"psvc_1", "missing_1 a", "missing_1 b">>,
     tags |-> <<"needs_work">>]

\* an asset of a type the registry does not know
Zzz1 ==
    [id |-> "zzz_1", type |-> "bogus", name |-> "Unknown 1",
     depends_on |-> <<"srv_1">>]

\* an asset without a type
Dply1 ==
    [id |-> "dply_1", name |-> "Deployment 1", depends_on |-> <<"zzz_1">>,
     open_issues |-> <<"not typed">>]

Sto1 ==
    [id |-> "sto_1", type |-> "storage/local", name |-> "Storage 1",
     depends_on |-> <<"db_1 INSUF", "srv_1">>, location |-> ""]

\* a backup of the application, which nothing depends on
Bak1 ==
    [id |-> "bak_1", type |-> "backup", name |-> "Backup 1",
     depends_on |-> <<"app_1">>, location |-> "z"]

\* an archived asset, which has the id that psvc_1 and db_1 depend on
Arc1 ==
    [id |-> "missing_1", type |-> "storage/local", name |-> "Retired storage",
     tags |-> <<"archived">>]

\* a virtual machine on the service, with storage that does not suffice
Vbx1 ==
    [id |-> "vbx_1", type |-> "vm/virtualbox", name |-> "VM 1",
     depends_on |-> <<"psvc_1", "sto_1 INSUF shared">>]

\* storage whose file gives no location
Sto9 == [id |-> "sto_9", type |-> "storage/local", name |-> "Storage without location"]

AssetChoices ==
    {Srv1, Psvc1, App1, Srv1Cycle, Db1, Zzz1, Dply1, Sto1, Bak1, Arc1, Vbx1, Sto9}

AssetLists ==
    UNION {[1..n -> AssetChoices] : n \in 1..MaxAssets}

OptAssetLists ==
    UNION {[1..n -> AssetChoices] : n \in 1..MaxOptAssets}

(***************************************************************************)
(* write_maps: the parameters of its write_map calls, in calling order.    *)
(***************************************************************************)
\* the keys of ASSET_TYPE in the order of the dictionary
ASSET_TYPES ==
    << "application/external", "application/internal", "backup", "cloud/service",
       "container/docker", "database", "drive", "physical/server",
       "physical/server/service", "physical/server/service/infrastructure",
       "resource/deployment", "storage/local", "vm/virtualbox", "website/static" >>

Map(base, leads_to, in_field, negate) ==
    [base |-> base, leads_to |-> leads_to, in_field |-> in_field, negate |-> negate]

write_maps(assets, list) ==
    LET apps == SelectSeq(list,
                    LAMBDA k : "type" \in DOMAIN assets[k]
                               /\ startswith(assets[k].type, "application/"))
    IN  << Map("index", ".*", "_dependent_types", FALSE),
           Map("_unapplied", "application/.*", "_dependent_types", TRUE) >>
        \o [t \in 1..Len(ASSET_TYPES) |->
               Map("_" \o replace(ASSET_TYPES[t], "/", "_"), ASSET_TYPES[t],
                   "_dependent_types", FALSE)]
        \o [a \in 1..Len(apps) |->
               Map("_" \o assets[apps[a]].id, assets[apps[a]].id,
                   "_dependent_ids", FALSE)]

\* the two propagations of prep_assets, (output, field), in calling order
Propagations == << <<"_dependent_types", "type">>, <<"_dependent_ids", "id">> >>

\* prep_assets: assets = [i for i in assets if 'archived' not in i.get('tags', [])]
Unarchived(loaded) ==
    SelectSeq(loaded, LAMBDA i : ~InList("archived", Get(i, "tags", <<>>)))

\* prep_assets: archived = [i for i in assets if 'archived' in i.get('tags', [])]
Archived(loaded) ==
    SelectSeq(loaded, LAMBDA i : InList("archived", Get(i, "tags", <<>>)))

(***************************************************************************)
(* The options and generate_outputs.  An option that is not given is None  *)
(* in the code and the empty string here; both are falsy.  The asset files *)
(* hold no `general` section, so the title starts with the empty string.   *)
(***************************************************************************)
Opt(updated, leaf_type, leaf_negate, theme) ==
    [updated |-> updated, leaf_type |-> leaf_type, leaf_negate |-> leaf_negate,
     theme |-> theme]

OptChoices ==
    { Opt("", "", FALSE, "light"), Opt("Today", "", FALSE, "dark"),
      Opt("Today", "physical/server", FALSE, "light"),
      Opt("Today", "application/.*", TRUE, "dark") }

\* the command line of the repository's test: --updated Today --theme dark
TestOpt == Opt("Today", "", FALSE, "dark")

\* generate_all: OPT.theme = DARK_THEME if opt.theme == 'dark' else LIGHT_THEME
SetOPT(options) ==
    [theme |-> IF options.theme = "dark" THEN DARK_THEME ELSE LIGHT_THEME]

\* the seconds the clock may show when the run-th generate_all of the
\* process reads it: time does not go back, and two runs may fall in the
\* same second
Times(run) == {run - 1, run}

\* time.asctime() when the clock shows `now` seconds
asctime(now) == "Thu Jan  1 00:00:0" \o ToString(now) \o " 1970"

\* get_title that takes the generation time whatever --updated says
get_title_generation_time(options, now) ==
    "" \o " updated " \o asctime(now)

\* get_title(opt, assets) at the time `now`
get_title(options, now) ==
    LET ttl == ""
        updated == IF Len(options.updated) > 0 THEN options.updated ELSE asctime(now)
    IN  ttl \o " updated " \o updated

\* what write_reports raises: the keys of its three sorts read type, name
\* and location without a default
write_reports(assets, archived) ==
    LET Typed(prefix) ==
            SelectSeq(assets, LAMBDA i : "type" \in DOMAIN i /\ startswith(i.type, prefix))
        applications == Typed("application/")
        storage == Typed("storage/")
    IN  IF \/ \E k \in 1..Len(assets) : "type" \notin DOMAIN assets[k]
           \/ \E k \in 1..Len(applications) : "name" \notin DOMAIN applications[k]
           \/ \E k \in 1..Len(storage) : "location" \notin DOMAIN storage[k]
           \/ \E k \in 1..Len(archived) : "name" \notin DOMAIN archived[k]
        THEN "KeyError" ELSE "None"

\* generate_outputs, lines 870-884: the assets that write_maps gets
LeafTrim(assets, options) ==
    LET Keep(k) == \E j \in Get(assets[k], "_dependent_types", {}) :
                        re_search(options.leaf_type, j)
        leading == SelectSeq(Positions(assets), Keep)
    IN  IF Len(options.leaf_type) = 0 THEN Positions(assets)
        ELSE IF options.leaf_negate
        THEN SelectSeq(Positions(assets), LAMBDA k : ~AssetIn(assets, k, leading))
        ELSE leading

(***************************************************************************)
(* State.  One behaviour is one process that calls generate_all up to      *)
(* MaxRuns times on the same asset files, each time with the options of    *)
(* the time before or with the dark theme in place of the light one, the   *)
(* two calls that update of docker/run_itassets.py is written to make.     *)
(* (As it stands update looks generate_all up in the module, not in        *)
(* DependencyMapper, and ends with AttributeError before its first call.)  *)
(***************************************************************************)
VARIABLES
    files,                 \* the assets as load_assets reads them
    pc,                    \* the step of generate_all that comes next
    assets,                \* the asset list of this generate_all
    propagated,            \* propagate_dependent calls of this generate_all
    visited,               \* per root, the ids the last of them visited
    written,               \* write_map calls of this generate_all
    VALIDATORS_COMPILED,   \* the module level table of compiled validators
    seen,                  \* locals of the last validate_assets
    dependents,
    failures,
    calls,                 \* (asset position, validator) calls it made
    returned,              \* what each validate_assets that returned gave back
    runs,                  \* generate_all calls made
    map,                   \* parameters of the last write_map, NoMap if none
    use,                   \* locals of the last write_map and assets_to_dot
    passes,                \* the passes of its loop: length before and after
    other,
    ans,
    nodes,
    edges,
    exc,                   \* the exception that ended the process, or "None"
    exc_in,                \* the operation that raised it
    opt,                   \* the options of the command line
    OPT,                   \* the module level options that generate_all sets
    title,                 \* the title of this generate_all
    shown,                 \* the assets that write_maps gets, as positions
    rendered               \* the maps written so far, by every generate_all

validation == <<VALIDATORS_COMPILED, seen, dependents, failures, calls, returned>>
drawing == <<map, use, passes, other, ans, nodes, edges>>
output == <<title, shown>>
vars == <<files, pc, assets, propagated, visited, written, runs, validation, drawing,
          exc, exc_in,
          opt, OPT, output, rendered>>

NoMap == [base |-> "", leads_to |-> "", in_field |-> "", negate |-> FALSE]

NotDrawn ==
    /\ map = NoMap
    /\ use = <<>>
    /\ passes = <<>>
    /\ other = EmptyDict
    /\ ans = <<>>
    /\ nodes = <<>>
    /\ edges = <<>>

\* the state when generate_all is first called, on one of the lists of
\* asset files and with one of the options
InitWith(lists, options) ==
    /\ files \in lists
    /\ opt \in options
    /\ OPT = SetOPT(opt)
    /\ assets = Unarchived(files)
    /\ title = ""
    /\ shown = <<>>
    /\ rendered = <<>>
    /\ pc = "validate_assets"
    /\ propagated = 0
    /\ visited = <<>>
    /\ written = 0
    /\ runs = 1
    /\ VALIDATORS_COMPILED = <<>>
    /\ seen = EmptyDict
    /\ dependents = EmptyDict
    /\ failures = EmptyDict
    /\ calls = <<>>
    /\ returned = <<>>
    /\ NotDrawn
    /\ exc = "None"
    /\ exc_in = ""

Init == InitWith(AssetLists, {TestOpt})

\* the same with every choice of options, on shorter lists
InitOpt == InitWith(OptAssetLists, OptChoices)

\* what a step leaves in pc and the exception variables
Outcome(raised, in, next) ==
    /\ exc' = raised
    /\ exc_in' = IF raised = "None" THEN "" ELSE in
    /\ pc' = IF raised = "None" THEN next ELSE "raised"

\* prep_assets, lines 830-833: compile the validators and validate
ValidateAssets ==
    /\ pc = "validate_assets"
    /\ \E compiled \in {UpdateCompiled(VALIDATORS_COMPILED, DOMAIN VALIDATORS)} :
       \E r \in {validate_assets(assets, compiled)} :
           /\ VALIDATORS_COMPILED' = compiled
           /\ seen' = r.seen
           /\ dependents' = r.dependents
           /\ failures' = r.failures
           /\ calls' = r.calls
           /\ returned' = IF r.exc = "None" THEN Append(returned, r.failures)
                          ELSE returned
           /\ Outcome(r.exc, "validate_assets", "propagate_dependent")
    /\ UNCHANGED <<files, assets, propagated, visited, written, runs, drawing,
                   opt, OPT, output, rendered>>

\* prep_assets, lines 842-845: the next of the two propagations
PropagateDependent ==
    /\ pc = "propagate_dependent"
    /\ \E p \in {Propagations[propagated + 1]} :
       \E r \in {propagate_dependent(assets, p[1], p[2])} :
           /\ assets' = r.assets
           /\ visited' = r.visited
           /\ propagated' = propagated + 1
           /\ Outcome(r.exc, "propagate_dependent",
                      IF propagated + 1 = Len(Propagations)
                      THEN "generate_outputs" ELSE "propagate_dependent")
    /\ UNCHANGED <<files, written, runs, validation, drawing,
                   opt, OPT, output, rendered>>

\* generate_outputs up to its call of write_maps: the title, the reports
\* (of which the model keeps what they raise) and the trimming.  Every
\* asset file gives a name and every asset has a type once
\* propagate_dependent has returned, so report_to_html raises nothing.
GenerateOutputs ==
    /\ pc = "generate_outputs"
    /\ \E now \in IF Len(opt.updated) > 0 THEN {0} ELSE Times(runs) :
          title' = get_title(opt, now)
    /\ \E raised \in {write_reports(assets, Archived(files))} :
          /\ shown' = IF raised = "None" THEN LeafTrim(assets, opt) ELSE shown
          /\ Outcome(raised, "generate_outputs", "write_maps")
    /\ UNCHANGED <<files, assets, propagated, visited, written, runs, validation,
                   drawing, opt, OPT, rendered>>

\* write_maps: its next write_map
WriteMap ==
    /\ pc = "write_maps"
    /\ \E maps \in {write_maps(assets, shown)} :
       \E m \in {maps[written + 1]} :
       \E r \in {write_map(assets, shown, m.leads_to, m.in_field, m.negate, OPT)} :
           /\ map' = m
           /\ use' = r.use
           /\ passes' = r.passes
           /\ other' = r.other
           /\ ans' = r.ans
           /\ nodes' = r.nodes
           /\ edges' = r.edges
           /\ written' = written + 1
           /\ rendered' =
                 IF r.exc # "None" THEN rendered
                 ELSE Append(rendered,
                         [run |-> runs, theme |-> OPT.theme.name,
                          base |-> m.base, title |-> title,
                          use |-> r.use, ans |-> r.ans, nodes |-> r.nodes,
                          edges |-> r.edges])
           /\ Outcome(r.exc, "write_map",
                      IF written + 1 = Len(maps) THEN "done" ELSE "write_maps")
    /\ UNCHANGED <<files, assets, propagated, visited, runs, validation, opt, OPT,
                   output>>

\* the next generate_all of the process sets OPT and loads the asset files
\* again; its options are those of the call before, or those with --theme dark
GenerateAgain ==
    /\ pc = "done"
    /\ runs < MaxRuns
    /\ runs' = runs + 1
    /\ \E theme \in {opt.theme, "dark"} :
          /\ opt' = [opt EXCEPT !.theme = theme]
          /\ OPT' = SetOPT(opt')
    /\ assets' = Unarchived(files)
    /\ title' = ""
    /\ shown' = <<>>
    /\ propagated' = 0
    /\ visited' = <<>>
    /\ written' = 0
    /\ pc' = "validate_assets"
    /\ map' = NoMap
    /\ use' = <<>>
    /\ passes' = <<>>
    /\ other' = EmptyDict
    /\ ans' = <<>>
    /\ nodes' = <<>>
    /\ edges' = <<>>
    /\ UNCHANGED <<files, validation, exc, exc_in, rendered>>

Next ==
    \/ ValidateAssets
    \/ PropagateDependent
    \/ GenerateOutputs
    \/ WriteMap
    \/ GenerateAgain

Spec == Init /\ [][Next]_vars

SpecOpt == InitOpt /\ [][Next]_vars

(***************************************************************************)
(* Vocabulary of the properties.                                           *)
(***************************************************************************)
HasDuplicateIds(list) ==
    \E i, j \in 1..Len(list) : i < j /\ list[i].id = list[j].id

CountOf(list, x) == Cardinality({i \in 1..Len(list) : list[i] = x})

\* the first tokens of the depends_on entries of an asset
FirstTokens(asset) ==
    LET entries == Get(asset, "depends_on", <<>>)
    IN  [e \in 1..Len(entries) |-> split(entries[e])[1]]

TokenSet(asset) == {FirstTokens(asset)[e] : e \in 1..Len(FirstTokens(asset))}

\* validate_assets has run in this or an earlier generate_all
Validated == pc # "validate_assets" \/ runs > 1

\* the validators called for the asset at position k by the last validate_assets
CalledFor(k) == SelectSeq(calls, LAMBDA c : c[1] = k)

\* the last validate_assets raised while the asset at position k was validated
RaisedAt(k) ==
    /\ exc_in = "validate_assets"
    /\ calls # <<>>
    /\ calls[Len(calls)][1] = k

\* every validator of the asset at position k ran to its end
Completed(k) == CalledFor(k) # <<>> /\ ~RaisedAt(k)

IssuesOf(k) == Get(failures, assets[k].id, <<>>)

UndefinedWarning(id) == <<"WARNING", "Depends on undefined asset ID=" \o id>>

\* the asset at position b names the id of the asset at position a
Direct(b, a) == assets[a].id \in TokenSet(assets[b])

\* the positions of the assets that depend on one of `found`, transitively
RECURSIVE Dependers(_)
Dependers(found) ==
    LET more == found \cup {b \in 1..Len(assets) : \E a \in found : Direct(b, a)}
    IN  IF more = found THEN found ELSE Dependers(more)

TransitiveDependers(a) == Dependers({b \in 1..Len(assets) : Direct(b, a)})

UseIds == {assets[use[m]].id : m \in 1..Len(use)}

AssetIds == {assets[k].id : k \in 1..Len(assets)}

\* the ids of the assets of the list that write_map gets
ShownIds == {assets[shown[m]].id : m \in 1..Len(shown)}

(***************************************************************************)
(* Properties.                                                             *)
(***************************************************************************)

\* C1: when two assets of the list share an id, validate_assets raises the
\* duplicate id exception after its first loop has scanned the whole list
\* (seen holds every id, dependents every dependency of every asset), no
\* validator is called, no issues are returned and no later step runs.
C1_DuplicateIdsAbort ==
    (Validated /\ HasDuplicateIds(Unarchived(files))) =>
        /\ exc = "Exception"
        /\ exc_in = "validate_assets"
        /\ pc = "raised"
        /\ calls = <<>>
        /\ failures = EmptyDict
        /\ returned = <<>>
        /\ propagated = 0 /\ written = 0 /\ map = NoMap
        /\ DOMAIN seen = AssetIds
        /\ \A k \in 1..Len(assets) : \A dep \in TokenSet(assets[k]) :
              /\ dep \in DOMAIN dependents
              /\ CountOf(dependents[dep], assets[k].id) >= 1

C1_Witness ==
    /\ exc = "Exception"
    /\ Len(assets) = 3
    /\ assets[1].id = assets[2].id
    /\ assets[3].id # assets[1].id
    /\ TokenSet(assets[3]) # {}

\* C2 as stated: a validated asset gets exactly one 'Depends on undefined
\* asset' WARNING for every id of its depends_on that does not start with
\* '^' and is not in lookup, and none for any other id.
C2_ExactlyOneUndefinedWarning ==
    \A k \in 1..Len(assets) : \A id \in TokenSet(assets[k]) :
        CalledFor(k) # <<>> =>
            CountOf(IssuesOf(k), UndefinedWarning(id)) =
                IF id \notin DOMAIN seen /\ ~startswith(id, "^") THEN 1 ELSE 0

\* C2 amended: a validated asset gets one 'Depends on undefined asset'
\* WARNING per depends_on entry whose first token is an id that does not
\* start with '^' and is not in lookup (so exactly one for an id listed
\* once), and none for an id that is in lookup or starts with '^'.
C2_OneUndefinedWarningPerEntry ==
    \A k \in 1..Len(assets) : \A id \in TokenSet(assets[k]) :
        CalledFor(k) # <<>> =>
            CountOf(IssuesOf(k), UndefinedWarning(id)) =
                IF id \notin DOMAIN seen /\ ~startswith(id, "^")
                THEN CountOf(FirstTokens(assets[k]), id) ELSE 0

C2_Witness ==
    \E k \in 1..Len(assets) :
        /\ Completed(k)
        /\ CountOf(FirstTokens(assets[k]), "missing_1") = 2
        /\ CountOf(IssuesOf(k), UndefinedWarning("missing_1")) = 2
        /\ \E id \in TokenSet(assets[k]) : id \in DOMAIN seen
        /\ \E j \in 1..Len(assets) :
              /\ Completed(j)
              /\ \E id \in TokenSet(assets[j]) : startswith(id, "^")
              /\ CountOf(IssuesOf(j), UndefinedWarning("missing_1")) = 1

\* C3: after propagate_dependent(assets, output, field), the output set of
\* every asset A holds field(A) and field(B) for every asset B that depends
\* on A through a chain of depends_on ids, cycles and self-loops included.
C3_PropagationReachesDependencies ==
    \A n \in 1..propagated :
        pc # "raised" =>
            \A a, b \in 1..Len(assets) :
                (b = a \/ b \in TransitiveDependers(a)) =>
                    assets[b][Propagations[n][2]]
                        \in Get(assets[a], Propagations[n][1], {})

C3_Witness ==
    /\ propagated = 2
    /\ \E a, b, c \in 1..Len(assets) :
          /\ Direct(b, a) /\ Direct(c, b) /\ ~Direct(c, a) /\ c # a
          /\ Direct(c, c)
          /\ a \in TransitiveDependers(a)
          /\ assets[c].id \in assets[a]["_dependent_ids"]
          /\ assets[c].type \in assets[a]["_dependent_types"]

\* C4: the list `use` that write_map selects with negate=True is closed
\* under dependencies: every depends_on id of an asset of `use` that is the
\* id of an asset of the input list is the id of an asset of `use`.
C4_NegatedSelectionClosed ==
    (map # NoMap /\ map.negate) =>
        \A m \in 1..Len(use) : \A dep \in TokenSet(assets[use[m]]) :
            dep \in ShownIds => dep \in UseIds

\* C5: every validate_assets of the process on the same asset files returns
\* the same issue map: a generate_all that follows one whose validation
\* returned gets, from its own validate_assets, the same ids with the same
\* issues in the same order.
C5_ValidationIdempotent ==
    (runs >= 2 /\ pc # "validate_assets") =>
        /\ Len(returned) = runs
        /\ \A i \in 1..Len(returned) : returned[i] = returned[1]

C5_Witness ==
    /\ runs = 2
    /\ Len(returned) = 2
    /\ Cardinality(DOMAIN returned[2]) >= 2
    /\ \E id \in DOMAIN returned[2] : Len(returned[2][id]) >= 3

\* C6 as stated: an asset whose type is not in the registry gets the 'Has
\* unknown type' ERROR and validation goes on: validate_assets does not
\* raise and returns the issues of every asset, that ERROR among them.
C6_UnknownTypeContinues ==
    (Validated /\ ~HasDuplicateIds(assets)) =>
        \A k \in 1..Len(assets) :
            Get(assets[k], "type", "None") \notin DOMAIN ASSET_TYPE =>
                /\ exc_in # "validate_assets"
                /\ returned # <<>>
                /\ CountOf(Get(returned[Len(returned)], assets[k].id, <<>>),
                           <<"ERROR",
                             "Has unknown type " \o Get(assets[k], "type", "None")>>) = 1

\* the issues of the validators that were called for the asset at position k
\* and came before the last of them
RECURSIVE IssuesBeforeLast(_, _)
IssuesBeforeLast(k, called) ==
    IF Len(called) <= 1 THEN <<>>
    ELSE CallValidator(Head(called)[2], assets, assets[k], seen, dependents).issues
         \o IssuesBeforeLast(k, Tail(called))

\* C7: when a validator raises while asset A is validated, failures holds
\* under A's id the marker ('UNKNOWN', 'FAILURE') followed by the issues of
\* the validators that completed for A, and the exception leaves
\* validate_assets: nothing is returned and the process ends.
C7_PartialIssuesKeptOnFailure ==
    (exc_in = "validate_assets" /\ exc # "Exception") =>
        /\ calls # <<>>
        /\ LET k == calls[Len(calls)][1]
           IN  /\ assets[k].id \in DOMAIN failures
               /\ failures[assets[k].id] =
                     <<<<"UNKNOWN", "FAILURE">>>> \o IssuesBeforeLast(k, CalledFor(k))
        /\ pc = "raised"
        /\ Len(returned) = runs - 1

C7_Witness ==
    /\ exc_in = "validate_assets"
    /\ exc = "KeyError"
    /\ LET k == calls[Len(calls)][1]
       IN  /\ k > 1
           /\ Len(failures[assets[k].id]) >= 3
           /\ Len(CalledFor(k)) >= 4
           /\ Cardinality(DOMAIN failures) >= 2

\* the whole of s matches the pattern p (literal characters, '.', and '*'
\* after a character or '.')
RECURSIVE FullMatch(_, _)
FullMatch(p, s) ==
    IF Len(p) = 0 THEN Len(s) = 0
    ELSE IF Len(p) >= 2 /\ CharAt(p, 2) = "*"
    THEN \E n \in 0..Len(s) :
            /\ \A j \in 1..n : Head(p) \in {".", CharAt(s, j)}
            /\ FullMatch(SubSeq(p, 3, Len(p)), SubSeq(s, n + 1, Len(s)))
    ELSE /\ Len(s) > 0
         /\ Head(p) \in {".", Head(s)}
         /\ FullMatch(Tail(p), Tail(s))

\* C8: without negate, write_map selects, in the order of the list, exactly
\* the assets whose in_field set holds a label that the whole of leads_to
\* matches; an asset without such a label, or without the set, is left out.
C8_SelectsFullMatches ==
    (map # NoMap /\ ~map.negate) =>
        use = SelectSeq(shown,
                        LAMBDA k : \E j \in Get(assets[k], map.in_field, {}) :
                                        FullMatch(map.leads_to, j))

C8_Witness ==
    /\ map.base = "_physical_server"
    /\ ~map.negate
    /\ Len(use) >= 1
    /\ \E k \in 1..Len(assets) :
          /\ \A m \in 1..Len(use) : use[m] # k
          /\ "physical/server/service" \in assets[k][map.in_field]

\* the dependency ids of the assets of `use` that do not start with '^'
UseDeps ==
    UNION {{id \in TokenSet(assets[use[m]]) : ~startswith(id, "^")} : m \in 1..Len(use)}

\* the number of depends_on entries of the assets of `use` that name the id
RECURSIVE References(_, _)
References(id, m) ==
    IF m > Len(use) THEN 0
    ELSE CountOf(FirstTokens(assets[use[m]]), id) + References(id, m + 1)

\* C9: after add_missing_deps every dependency id (not starting with '^')
\* of every asset of the subset is a key of `other`, the placeholder records
\* are those of the ids that no asset of the subset has, one each, and one
\* node line was written per such id.
C9_OnePlaceholderPerMissingId ==
    map # NoMap =>
        /\ UseDeps \subseteq DOMAIN other
        /\ {id \in DOMAIN other : other[id].asset = 0} = UseDeps \ UseIds
        /\ DOMAIN other = UseIds \cup UseDeps
        /\ Len(ans) = Cardinality(UseDeps \ UseIds)
        /\ \A i, j \in 1..Len(ans) : i # j => ans[i] # ans[j]
        /\ \A e \in 1..Len(edges) :
              \E id \in DOMAIN other : other[id]._node_id = edges[e][1]

C9_Witness ==
    /\ map # NoMap
    /\ Len(use) >= 2
    /\ \E id \in UseDeps \ UseIds :
          /\ References(id, 1) >= 3
          /\ \E m \in 1..Len(use) : CountOf(FirstTokens(assets[use[m]]), id) = 2
          /\ \E m \in 1..Len(use) : CountOf(FirstTokens(assets[use[m]]), id) = 1
    /\ Len(ans) = 1

\* C10: an asset whose type requires the dependency pattern p and whose
\* depends_on holds an entry with the first token '^' followed by p gets
\* exactly one NOTE 'Specifically excludes' for p, no 'should define'
\* WARNING for p and no 'undefined asset' WARNING for that entry.
C10_ExclusionGivesOneNote ==
    \A k \in 1..Len(assets) :
        (Completed(k) /\ Get(assets[k], "type", "None") \in DOMAIN ASSET_TYPE) =>
            LET depends == ASSET_TYPE[assets[k].type].depends
            IN  \A d \in 1..Len(depends) :
                    ("^" \o depends[d]) \in TokenSet(assets[k]) =>
                        /\ CountOf(IssuesOf(k),
                              <<"NOTE", "Specifically excludes '" \o depends[d]
                                        \o "' dependency">>) = 1
                        /\ CountOf(IssuesOf(k),
                              <<"WARNING", "'" \o assets[k].type \o "' should define '"
                                           \o depends[d] \o "' dependency">>) = 0
                        /\ CountOf(IssuesOf(k),
                                   UndefinedWarning("^" \o depends[d])) = 0

C10_Witness ==
    \E k \in 1..Len(assets) :
        /\ Completed(k)
        /\ assets[k].type = "physical/server/service"
        /\ "^resource/deployment" \in TokenSet(assets[k])
        /\ CountOf(IssuesOf(k),
              <<"NOTE", "Specifically excludes 'resource/deployment' dependency">>) = 1
        /\ CountOf(IssuesOf(k),
              <<"WARNING",
                "'physical/server/service' should define 'storage/.*' dependency">>) = 1

\* the depends_on entries of an asset
Entries(asset) == Get(asset, "depends_on", <<>>)

\* the positions of the assets that the non-negated selection of the last
\* write_map leaves out
Complement ==
    {shown[m] : m \in {m \in 1..Len(shown) :
        ~AssetIn(assets, shown[m],
                 LeadingTo(assets, shown, map.leads_to, map.in_field))}}

\* C11: a depends_on entry with 'INSUF' in its commentary is an edge like any
\* other: its id gets the entry in the dependents map, gets the 'undefined
\* asset' WARNINGs of an id that is not in lookup, passes the labels of the
\* propagation on to the asset it names, and is pulled into the negated
\* selection from the complement; asset_dep_ids(asset, insufficient=True)
\* is the list of the first tokens of the entries without 'INSUF', in order.
C11_InsufficientIsAnEdge ==
    \A k \in 1..Len(assets) :
        /\ asset_dep_ids(assets[k], TRUE) =
              LET keep == SelectSeq(Entries(assets[k]), LAMBDA i : ~StrIn("INSUF", i))
              IN  [e \in 1..Len(keep) |-> split(keep[e])[1]]
        /\ \A e \in 1..Len(Entries(assets[k])) :
              StrIn("INSUF", Entries(assets[k])[e]) =>
                LET id == FirstTokens(assets[k])[e]
                IN  /\ ~InList(id, asset_dep_ids(assets[k], TRUE))
                       \/ \E f \in 1..Len(Entries(assets[k])) :
                             /\ FirstTokens(assets[k])[f] = id
                             /\ ~StrIn("INSUF", Entries(assets[k])[f])
                    /\ Validated =>
                          /\ id \in DOMAIN dependents
                          /\ CountOf(dependents[id], assets[k].id)
                                >= CountOf(FirstTokens(assets[k]), id)
                    /\ (CalledFor(k) # <<>> /\ id \notin DOMAIN seen
                            /\ ~startswith(id, "^")) =>
                          CountOf(IssuesOf(k), UndefinedWarning(id))
                                = CountOf(FirstTokens(assets[k]), id)
                    /\ (propagated = Len(Propagations) /\ pc # "raised") =>
                          \A a \in 1..Len(assets) :
                              assets[a].id = id =>
                                  /\ assets[k].type \in assets[a]["_dependent_types"]
                                  /\ assets[k].id \in assets[a]["_dependent_ids"]
                    /\ (map # NoMap /\ map.negate /\ k \in Complement
                            /\ id \in ShownIds) =>
                          id \in UseIds

C11_Witness ==
    /\ map # NoMap /\ map.negate
    /\ \E k \in Complement : \E e \in 1..Len(Entries(assets[k])) :
          /\ StrIn("INSUF", Entries(assets[k])[e])
          /\ \E a \in 1..Len(assets) :
                /\ assets[a].id = FirstTokens(assets[k])[e]
                /\ a \notin Complement
                /\ assets[a].id \in UseIds
                /\ assets[k].type \in assets[a]["_dependent_types"]
    /\ \E k \in 1..Len(assets) : \E e \in 1..Len(Entries(assets[k])) :
          /\ StrIn("INSUF", Entries(assets[k])[e])
          /\ Completed(k)
          /\ FirstTokens(assets[k])[e] \notin DOMAIN seen
          /\ CountOf(IssuesOf(k), UndefinedWarning(FirstTokens(assets[k])[e])) = 1
          /\ Len(asset_dep_ids(assets[k], TRUE)) = 1

\* C12: after propagate_dependent(assets, output, field) on a list with
\* unique ids, the output set of every asset A is exactly the set of
\* field(A) and of field(X) for the assets X that depend on A through a
\* chain of depends_on ids: it holds no other label.
C12_PropagationExact ==
    \A n \in 1..propagated :
        pc # "raised" =>
            \A a \in 1..Len(assets) :
                Get(assets[a], Propagations[n][1], {}) =
                    {assets[b][Propagations[n][2]] :
                        b \in {a} \cup TransitiveDependers(a)}

C12_Witness ==
    /\ propagated = 2
    /\ pc # "raised"
    /\ \E a, b, c \in 1..Len(assets) :
          /\ Direct(b, a) /\ Direct(c, b) /\ ~Direct(c, a)
          /\ assets[a]["_dependent_ids"] = {assets[a].id, assets[b].id, assets[c].id}
          /\ assets[b]["_dependent_ids"] = {assets[b].id, assets[c].id}
          /\ Cardinality(assets[b]["_dependent_types"]) = 2
          /\ assets[a].id \notin assets[c]["_dependent_ids"]

\* the positions of the assets reached from `found` along depends_on ids
\* that are ids of assets of the list
RECURSIVE Dependencies(_)
Dependencies(found) ==
    LET more == found \cup {shown[m] : m \in {m \in 1..Len(shown) :
                                \E b \in found : Direct(b, shown[m])}}
    IN  IF more = found THEN found ELSE Dependencies(more)

\* C13: the list `use` that write_map selects with negate=True holds every
\* asset that the non-negated selection leaves out, holds besides them
\* exactly the assets reached from those along depends_on ids that resolve
\* (it is the smallest dependency-closed superset of the complement), and
\* holds no asset twice.
C13_NegatedSelectionIsClosure ==
    (map # NoMap /\ map.negate) =>
        /\ Complement \subseteq {use[m] : m \in 1..Len(use)}
        /\ {use[m] : m \in 1..Len(use)} = Dependencies(Complement)
        /\ \A m, q \in 1..Len(use) : m # q => use[m] # use[q]

\* the place in the registration order of the validator that yields the issue
Rank(issue) ==
    CASE startswith(issue[2], "Has unknown type") -> 1
      [] startswith(issue[2], "Depends on undefined asset") -> 2
      [] issue[2] = "Has unknown prefix" -> 3
      [] issue[2] = "Non-top-level asset has no dependents" -> 4
      [] issue[2] = "Non-bottom-level asset has no dependencies" -> 5
      [] issue[2] = "Has open issues" -> 6
      [] issue[2] = "Has 'needs_work' tag" -> 7
      [] StrIn("' definition missing '", issue[2]) -> 8
      [] OTHER -> 9

\* the issues that the validators yield for the asset at position k, one
\* validator after the other
RECURSIVE IssuesInOrder(_, _)
IssuesInOrder(k, validators) ==
    IF validators = <<>> THEN <<>>
    ELSE CallValidator(Head(validators), assets, assets[k], seen, dependents).issues
         \o IssuesInOrder(k, Tail(validators))

\* C14: validate_assets calls the validators asset by asset in the order of
\* the list and, for one asset, in the order of their registration, from
\* known_asset_type to check_depends; the issue list of an asset is the
\* issues of the first validator, then those of the second, and so on, each
\* in the order in which the validator yielded them.
C14_DiscoveryOrder ==
    /\ \A i, j \in 1..Len(calls) : i < j => calls[i][1] <= calls[j][1]
    /\ \A k \in 1..Len(assets) :
          LET called == CalledFor(k)
          IN  /\ Len(called) <= Len(VALIDATORS[".*"])
              /\ \A c \in 1..Len(called) :
                    called[c][2] =
                        << "known_asset_type", "no_undef_depends", "known_id_prefix",
                           "dependents_if_not_top", "dependencies_if_not_bottom",
                           "has_open_issues", "tagged_needs_work", "check_fields",
                           "check_depends" >>[c]
              /\ Completed(k) =>
                    /\ Len(called) = 9
                    /\ IssuesOf(k) = IssuesInOrder(k, VALIDATORS[".*"])
                    /\ \A i, j \in 1..Len(IssuesOf(k)) :
                          i < j => Rank(IssuesOf(k)[i]) <= Rank(IssuesOf(k)[j])
              /\ (Completed(k) /\ k > 1) => Completed(k - 1)

C14_Witness ==
    \E k \in 2..Len(assets) :
        /\ Completed(k)
        /\ Completed(k - 1) /\ IssuesOf(k - 1) # <<>>
        /\ Len(IssuesOf(k)) >= 5
        /\ Rank(IssuesOf(k)[1]) = 2 /\ Rank(IssuesOf(k)[2]) = 2
        /\ IssuesOf(k)[1] # IssuesOf(k)[2]
        /\ Rank(IssuesOf(k)[Len(IssuesOf(k))]) = 9
        /\ Rank(IssuesOf(k)[Len(IssuesOf(k)) - 1]) = 9
        /\ \E i \in 1..Len(IssuesOf(k)) : Rank(IssuesOf(k)[i]) \in 3..8

\* the maps that the run-th generate_all of the process wrote, in order
RenderedBy(run) ==
    LET mine == SelectSeq(rendered, LAMBDA r : r.run = run)
    IN  [i \in 1..Len(mine) |->
            [theme |-> mine[i].theme,
             base |-> mine[i].base, title |-> mine[i].title, use |-> mine[i].use,
             ans |-> mine[i].ans, nodes |-> mine[i].nodes, edges |-> mine[i].edges]]

\* C15: with --updated given, every later generate_all on the same asset
\* files and options, the theme among them, writes what the first wrote:
\* the same issues, and map by map the same title, selected assets,
\* placeholder lines, node ids and edges; the title holds the --updated
\* value in place of the time.
C15_SameOutputWithUpdated ==
    (Len(opt.updated) > 0 /\ runs >= 2 /\ RenderedBy(1)[1].theme = opt.theme) =>
        /\ \A i \in 1..Len(RenderedBy(runs)) :
              /\ i <= Len(RenderedBy(1))
              /\ RenderedBy(runs)[i] = RenderedBy(1)[i]
        /\ \A i \in 1..Len(rendered) :
              rendered[i].title = " updated " \o opt.updated
        /\ pc \in {"generate_outputs", "write_maps", "done"} =>
              /\ Len(returned) = runs
              /\ returned[runs] = returned[1]
        /\ pc = "done" => Len(RenderedBy(runs)) = Len(RenderedBy(1))

C15_Witness ==
    /\ pc = "done"
    /\ runs = 2
    /\ RenderedBy(1)[1].theme = opt.theme
    /\ opt.updated = "Today"
    /\ Len(opt.leaf_type) > 0
    /\ Len(shown) < Len(assets)
    /\ Len(RenderedBy(2)) >= 16
    /\ returned[2] # EmptyDict
    /\ \E i \in 1..Len(RenderedBy(2)) :
          /\ Len(RenderedBy(2)[i].use) >= 1
          /\ Len(RenderedBy(2)[i].ans) >= 1
          /\ Len(RenderedBy(2)[i].edges) >= 1

\* the WARNING of check_depends for the required pattern p
ShouldDefine(type_, p) ==
    <<"WARNING", "'" \o type_ \o "' should define '" \o p \o "' dependency">>

\* C16: an asset of a known type T gets the 'should define' WARNING for a
\* required pattern p of T exactly once when it has no '^p' entry and no
\* depends_on entry without 'INSUF' whose id is in lookup and names an asset
\* whose type p matches somewhere (a search), and not at all otherwise; an
\* id that is not in lookup satisfies no pattern.
C16_ShouldDefineIffUnmet ==
    \A k \in 1..Len(assets) :
        (Completed(k) /\ Get(assets[k], "type", "None") \in DOMAIN ASSET_TYPE) =>
            LET depends == ASSET_TYPE[assets[k].type].depends
            IN  \A d \in 1..Len(depends) :
                    LET p == depends[d]
                        excluded == ("^" \o p) \in TokenSet(assets[k])
                        met == \E e \in 1..Len(Entries(assets[k])) :
                                  /\ ~StrIn("INSUF", Entries(assets[k])[e])
                                  /\ FirstTokens(assets[k])[e] \in DOMAIN seen
                                  /\ re_search(p,
                                        assets[seen[FirstTokens(assets[k])[e]]].type)
                    IN  CountOf(IssuesOf(k), ShouldDefine(assets[k].type, p)) =
                            IF ~excluded /\ ~met THEN 1 ELSE 0

C16_Witness ==
    \E k \in 1..Len(assets) :
        /\ Completed(k)
        /\ assets[k].type = "vm/virtualbox"
        /\ "psvc_1" \in DOMAIN seen
        /\ "sto_1" \in DOMAIN seen
        /\ assets[seen["sto_1"]].type = "storage/local"
        /\ CountOf(IssuesOf(k), ShouldDefine("vm/virtualbox", "physical/server")) = 0
        /\ CountOf(IssuesOf(k), ShouldDefine("vm/virtualbox", "storage/.*")) = 1

\* the number of depends_on entries, of the assets that have the id, whose
\* first token is dep
EntriesNaming(dep, id) ==
    Cardinality(UNION {{<<k, e>> : e \in {e \in 1..Len(Entries(assets[k])) :
                                            FirstTokens(assets[k])[e] = dep}} :
                       k \in {k \in 1..Len(assets) : assets[k].id = id}})

NoDependents == <<"WARNING", "Non-top-level asset has no dependents">>

\* C17: the dependents map of validate_assets has as keys the ids that the
\* depends_on entries of the validated assets name, whether they name an
\* asset or not, and holds under each the ids of the assets that name it,
\* once per entry and in the order of the list; a validated asset of a known
\* type without the 'top' tag gets the 'no dependents' WARNING exactly when
\* no asset of the list names its id, an asset of a 'top' type never.
C17_DependentsMap ==
    Validated =>
        /\ DOMAIN dependents = UNION {TokenSet(assets[k]) : k \in 1..Len(assets)}
        /\ \A dep \in DOMAIN dependents :
              /\ \A i \in 1..Len(dependents[dep]) : dependents[dep][i] \in AssetIds
              /\ \A id \in AssetIds :
                    CountOf(dependents[dep], id) = EntriesNaming(dep, id)
              /\ ~HasDuplicateIds(assets) =>
                    \A i, j \in 1..Len(dependents[dep]) :
                        i < j => seen[dependents[dep][i]] <= seen[dependents[dep][j]]
        /\ \A k \in 1..Len(assets) :
              (Completed(k) /\ Get(assets[k], "type", "None") \in DOMAIN ASSET_TYPE) =>
                  CountOf(IssuesOf(k), NoDependents) =
                      IF /\ "top" \notin ASSET_TYPE[assets[k].type].tags
                         /\ ~\E b \in 1..Len(assets) : Direct(b, k)
                      THEN 1 ELSE 0

C17_Witness ==
    /\ pc = "propagate_dependent"
    /\ \E dep \in DOMAIN dependents : dep \notin AssetIds /\ ~startswith(dep, "^")
    /\ \E dep \in DOMAIN dependents :
          /\ Len(dependents[dep]) = 2
          /\ dependents[dep][1] # dependents[dep][2]
          /\ dep \in AssetIds
    /\ \E k \in 1..Len(assets) :
          /\ "top" \notin ASSET_TYPE[assets[k].type].tags
          /\ CountOf(IssuesOf(k), NoDependents) = 1
    /\ \E k \in 1..Len(assets) :
          /\ "top" \notin ASSET_TYPE[assets[k].type].tags
          /\ CountOf(IssuesOf(k), NoDependents) = 0

\* the ids that the depends_on entries of the assets name
AllTokens == UNION {TokenSet(assets[k]) : k \in 1..Len(assets)}

\* every traversal of the last propagate_dependent visited each dependency
\* id at most once, so it made no more calls than there are ids
VisitsOncePerRoot ==
    \A r \in 1..Len(visited) :
        /\ \A i, j \in 1..Len(visited[r]) : i # j => visited[r][i] # visited[r][j]
        /\ Len(visited[r]) <= Cardinality(AllTokens)

\* C18: on every list with unique ids, with cycles, self-dependencies and
\* undefined ids, each root's traversal of propagate_dependent visits each
\* dependency id at most once and so ends, and the loop of the negated
\* selection ends at the first pass that adds no asset: every pass before
\* its last adds an asset and its last adds none.
C18_TraversalsTerminate ==
    ~HasDuplicateIds(Unarchived(files)) =>
    /\ VisitsOncePerRoot
    /\ (map # NoMap /\ map.negate) =>
          /\ passes # <<>>
          /\ Len(passes) <= Len(shown) + 1
          /\ \A i \in 1..(Len(passes) - 1) : passes[i][2] > passes[i][1]
          /\ passes[Len(passes)][2] = passes[Len(passes)][1]

\* the patterns and the label fields that a selection is asked with
SelectionPatterns ==
    {".*", "application/.*"} \cup {assets[k].type : k \in 1..Len(assets)} \cup AssetIds

LabelFields == {"_dependent_types", "_dependent_ids"}

\* every asset that a depends_on id of an asset of the list names is in the list
DependencyClosed(list) ==
    \A m \in 1..Len(list) : \A k \in 1..Len(assets) :
        Direct(list[m], k) => \E n \in 1..Len(list) : list[n] = k

\* C20: once propagate_dependent has run for both label fields on the whole
\* list, the selection of write_map without negate over that list is closed
\* under dependencies, for every pattern and either label field: with a
\* selected asset it holds every asset of the list that a depends_on id of
\* that asset names.
C20_SelectionDependencyClosed ==
    /\ (propagated = 2 /\ pc # "raised") =>
          \A pattern \in SelectionPatterns : \A field \in LabelFields :
              DependencyClosed(LeadingTo(assets, Positions(assets), pattern, field))
    /\ (map # NoMap /\ ~map.negate /\ shown = Positions(assets)) =>
          DependencyClosed(use)

C20_Witness ==
    /\ map # NoMap /\ ~map.negate /\ shown = Positions(assets)
    /\ map.in_field = "_dependent_types"
    /\ Len(use) = 2 /\ Len(assets) = 3
    /\ assets[use[1]].type = map.leads_to
    /\ assets[use[2]].type # map.leads_to
    /\ Direct(use[1], use[2])
    /\ \E k \in 1..Len(assets) : Direct(k, use[1])

\* the ids that the assets of the loaded inventory define
LoadedIds == {files[k].id : k \in 1..Len(files)}

\* the ids that the drawn map shows as a "???" placeholder
PlaceholderIds == {id \in DOMAIN other : other[id].asset = 0}

\* C19: in every map that a run draws, whatever the view, with or without
\* the trimming of --leaf-type and --leaf-negate and with archived assets in
\* the inventory, add_missing_deps makes a "???" placeholder only for an id
\* that no asset of the loaded inventory defines: a dependency on a defined
\* asset is never shown as a placeholder.
C19_PlaceholderOnlyForUndefined ==
    (map # NoMap /\ exc = "None") => PlaceholderIds \cap LoadedIds = {}

\* the elements of a sequence in the order of their first occurrence
RECURSIVE FirstOccurrences(_)
FirstOccurrences(seq) ==
    IF seq = <<>> THEN <<>>
    ELSE LET rest == FirstOccurrences(SubSeq(seq, 1, Len(seq) - 1))
             last == seq[Len(seq)]
         IN  IF \E i \in 1..Len(rest) : rest[i] = last THEN rest
             ELSE Append(rest, last)

\* the ids that the depends_on entries of the drawn assets name, asset by
\* asset from the m-th on and entry by entry
RECURSIVE ReferencedFrom(_)
ReferencedFrom(m) ==
    IF m > Len(use) THEN <<>>
    ELSE FirstTokens(assets[use[m]]) \o ReferencedFrom(m + 1)

\* the ids that the drawn assets depend on and none of them has, in the
\* order in which they are first named
MissingInOrder ==
    FirstOccurrences(SelectSeq(ReferencedFrom(1),
                               LAMBDA id : ~startswith(id, "^") /\ id \notin UseIds))

\* C21: in one render of assets_to_dot the node ids are unique: the N
\* drawn assets are n0 .. n(N-1) by their position in the list, the
\* placeholder of the k-th distinct missing id (k from 0) is n(N+k), the
\* "???" line written for a placeholder names the _node_id of its record,
\* and no two records of the render, placeholder or asset, share a node id.
C21_NodeIdsUnique ==
    map # NoMap =>
        /\ \A m \in 1..Len(use) :
              other[assets[use[m]].id]._node_id = "n" \o ToString(m - 1)
        /\ exc = "None" => nodes = [m \in 1..Len(use) |-> "n" \o ToString(m - 1)]
        /\ Len(ans) = Len(MissingInOrder)
        /\ \A k \in 1..Len(MissingInOrder) :
              LET record == other[MissingInOrder[k]]
              IN  /\ record.asset = 0
                  /\ record._node_id = "n" \o ToString(Len(use) + k - 1)
                  /\ ans[k] = "  " \o record._node_id
                                \o " [label=\"???\", shape=doubleoctagon, "
                                \o "fillcolor=\"" \o OPT.theme.dot_err_col
                                \o "\", style=filled]"
        /\ \A a, b \in DOMAIN other : a # b => other[a]._node_id # other[b]._node_id

C21_Witness ==
    /\ map # NoMap
    /\ exc = "None"
    /\ Len(use) = 2
    /\ Len(MissingInOrder) = 2
    /\ CountOf(ReferencedFrom(1), MissingInOrder[2]) >= 3
    /\ other[MissingInOrder[2]]._node_id = "n3"
    /\ Len(nodes) = 2

====
